---- MODULE Spec2Model ----
(***************************************************************************)
(* A model of assets/scripts/main.js: the page initializer init(), the     *)
(* service worker registrar, the cache-or-fetch loader getRecipes() with   *)
(* its manually built promise, saveRecipesToStorage and the renderer       *)
(* addRecipesToDocument.  Several tabs (pages) share one localStorage.     *)
(***************************************************************************)
EXTENDS Integers, Sequences, FiniteSets, TLC

(***************************************************************************)
(* Program constants and model bounds                                      *)
(***************************************************************************)

\* RECIPE_URLS.length
NumUrls == 6

\* RECIPE_URLS, by index
RECIPE_URLS == 1..NumUrls

\* how many load events the platform dispatches to one page at most
MaxLoadEvents == 2

\* the pages that share the storage
Tabs == {"A", "B"}

(***************************************************************************)
(* JavaScript values                                                       *)
(***************************************************************************)

Undefined == [type |-> "undefined"]

Null == [type |-> "null"]

Num(n) == [type |-> "number", n |-> n]

\* the object a source's body parses to: opaque, identified by its source;
\* id 0 is the empty object {}
Obj(k) == [type |-> "object", id |-> k]

Arr(items) == [type |-> "array", items |-> items]

\* the error of source u, raised by its request or by its body parse
Err(u, stage) == [type |-> "error", src |-> u, stage |-> stage]

\* ToBoolean of a value
Truthy(v) ==
    CASE v.type = "undefined" -> FALSE
      [] v.type = "null" -> FALSE
      [] v.type = "number" -> v.n # 0
      [] OTHER -> TRUE

(***************************************************************************)
(* JSON text: a string is a sequence of tokens                             *)
(***************************************************************************)

ObjTok == <<"{1}", "{2}", "{3}", "{4}", "{5}", "{6}">>

IsObjTok(tok) == tok = "{}" \/ \E k \in 1..Len(ObjTok) : ObjTok[k] = tok

ObjOfTok(tok) ==
    IF tok = "{}" THEN Obj(0)
    ELSE Obj(CHOOSE k \in 1..Len(ObjTok) : ObjTok[k] = tok)

IsScalarTok(tok) == tok \in {"null", "0", "7"} \/ IsObjTok(tok)

ScalarOfTok(tok) ==
    CASE tok = "null" -> Null
      [] tok = "0" -> Num(0)
      [] tok = "7" -> Num(7)
      [] OTHER -> ObjOfTok(tok)

SyntaxError == [ok |-> FALSE, val |-> Undefined, next |-> 0]

Parsed(v, n) == [ok |-> TRUE, val |-> v, next |-> n]

RECURSIVE ParseValue(_, _)
RECURSIVE ParseElements(_, _, _)

\* the elements of an array from position i on, acc holding those read so far
ParseElements(s, i, acc) ==
    LET e == ParseValue(s, i) IN
    IF ~e.ok \/ e.next > Len(s) THEN SyntaxError
    ELSE IF s[e.next] = "," THEN ParseElements(s, e.next + 1, Append(acc, e.val))
    ELSE IF s[e.next] = "]" THEN Parsed(Arr(Append(acc, e.val)), e.next + 1)
    ELSE SyntaxError

\* one JSON value starting at position i
ParseValue(s, i) ==
    IF i > Len(s) THEN SyntaxError
    ELSE IF s[i] = "[" THEN
        IF i + 1 <= Len(s) /\ s[i + 1] = "]" THEN Parsed(Arr(<<>>), i + 2)
        ELSE ParseElements(s, i + 1, <<>>)
    ELSE IF IsScalarTok(s[i]) THEN Parsed(ScalarOfTok(s[i]), i + 1)
    ELSE SyntaxError

\* JSON.parse: the value, or a SyntaxError thrown
JSONparse(s) ==
    LET r == ParseValue(s, 1) IN
    IF r.ok /\ r.next = Len(s) + 1 THEN r ELSE SyntaxError

RECURSIVE JSONstringify(_)
RECURSIVE JoinItems(_, _)

JoinItems(items, i) ==
    IF i > Len(items) THEN <<>>
    ELSE (IF i = 1 THEN <<>> ELSE <<",">>) \o JSONstringify(items[i])
         \o JoinItems(items, i + 1)

\* JSON.stringify of a value
JSONstringify(v) ==
    CASE v.type = "array" -> <<"[">> \o JoinItems(v.items, 1) \o <<"]">>
      [] v.type = "object" -> IF v.id = 0 THEN <<"{}">> ELSE <<ObjTok[v.id]>>
      [] v.type = "number" -> IF v.n = 0 THEN <<"0">> ELSE <<"7">>
      [] OTHER -> <<"null">>

(***************************************************************************)
(* State                                                                   *)
(***************************************************************************)

VARIABLES
    storage,        \* localStorage item 'recipes', shared by the tabs
    lastWriter,     \* the tab whose setItem call came last ("" when none)
    swSupported,    \* "serviceWorker" in navigator
    pc,             \* per tab, where init() stands
    cached,         \* per tab, what getRecipes() read from the storage
    promise,        \* per tab, the promise getRecipes() returned
    recipes,        \* per tab, the array getRecipes() collects into
    finished,       \* per tab, the count of sources parsed
    src,            \* per tab and source, where its request stands
    requests,       \* per tab, fetch calls issued by this page
    writes,         \* per tab, setItem calls made by this page
    firstError,     \* per tab, the argument of the first call of err
    initRecipes,    \* per tab, init()'s variable recipes once it renders
    main,           \* per tab, the children of <main>
    listeners,      \* per tab, load listeners installed
    loadFired,      \* per tab, load events dispatched to this page
    registrations,  \* per tab, calls of serviceWorker.register
    prev,           \* per tab, what the previous page load's call returned
    reads,          \* per tab, getItem calls made by this page
    calls           \* per tab, the calls init() has made, in order

vars == <<storage, lastWriter, swSupported, pc, cached, promise, recipes,
          finished, src, requests, writes, firstError, initRecipes, main,
          listeners, loadFired, registrations, prev, reads, calls>>

\* getItem's null
Absent == [present |-> FALSE, str |-> <<>>]

Str(s) == [present |-> TRUE, str |-> s]

Pending == [state |-> "pending", value |-> Undefined]

Fulfilled(v) == [state |-> "fulfilled", value |-> v]

Rejected(e) == [state |-> "rejected", value |-> e]

NoPrev == [kind |-> "none", value |-> Undefined]

\* what <main> holds before the script runs
Heading == [tag |-> "h1", data |-> Undefined]

InitialMain == <<Heading>>

\* a <recipe-card> carrying its recipe
RecipeCard(recipe) == [tag |-> "recipe-card", data |-> recipe]

\* what the storage may hold when the page is first opened
InitialStrings ==
    { <<>>,
      <<"[", "]">>,
      <<"[", "{1}", "]">>,
      <<"[", "{1}", ",", "{1}", "]">>,
      <<"[", "{2}", ",", "{1}", ",", "{3}", "]">>,
      <<"[", "null", ",", "7", "]">>,
      <<"[">>,
      <<"x">>,
      <<"[", "{1}", ",", "]">>,
      <<"[", "{1}", "{2}", "]">>,
      <<"]", "[">>,
      <<"null">>, <<"0">>, <<"7">>, <<"{}">> }

InitialStorage == {Absent} \cup {Str(s) : s \in InitialStrings}

PageInit ==
    /\ pc = [t \in Tabs |-> "idle"]
    /\ cached = [t \in Tabs |-> Absent]
    /\ promise = [t \in Tabs |-> Pending]
    /\ recipes = [t \in Tabs |-> <<>>]
    /\ finished = [t \in Tabs |-> 0]
    /\ src = [t \in Tabs |-> [u \in RECIPE_URLS |-> "idle"]]
    /\ requests = [t \in Tabs |-> 0]
    /\ writes = [t \in Tabs |-> 0]
    /\ firstError = [t \in Tabs |-> Undefined]
    /\ initRecipes = [t \in Tabs |-> Undefined]
    /\ main = [t \in Tabs |-> InitialMain]
    /\ listeners = [t \in Tabs |-> 0]
    /\ loadFired = [t \in Tabs |-> 0]
    /\ registrations = [t \in Tabs |-> 0]
    /\ prev = [t \in Tabs |-> NoPrev]
    /\ reads = [t \in Tabs |-> 0]
    /\ calls = [t \in Tabs |-> <<>>]

Init ==
    /\ storage \in InitialStorage
    /\ lastWriter = ""
    /\ swSupported \in BOOLEAN
    /\ PageInit

(***************************************************************************)
(* initializeServiceWorker                                                 *)
(***************************************************************************)

\* faulty variant: the support test left out
InstallsAlways(supported) == TRUE

\* if (!("serviceWorker" in navigator)) return; addEventListener("load", ..)
InstallsListener(supported) == supported

\* the load listener's body: one register("./sw.js") call per listener
RegistersOnLoad(installed) == installed

(***************************************************************************)
(* getRecipes and saveRecipesToStorage                                     *)
(***************************************************************************)

\* faulty variant: a corrupt entry counts as no entry and is fetched anew
CacheHitWhenParses(item) ==
    item.present /\ item.str # <<>> /\ JSONparse(item.str).ok

\* if (recipes): getItem's null and the empty string are falsy
CacheHit(item) == item.present /\ item.str # <<>>

\* faulty variant: the parsed value dropped
FromCacheAlwaysEmpty(s) == Arr(<<>>)

\* try { return JSON.parse(recipes) } catch(e) { return [] }
FromCache(s) ==
    LET r == JSONparse(s) IN
    IF r.ok THEN r.val ELSE Arr(<<>>)

\* faulty variant: the requests issued one after the other
IssuedFirstOnly == [u \in RECIPE_URLS |-> IF u = 1 THEN "fetching" ELSE "idle"]

\* the requests the loop over RECIPE_URLS issues
IssuedRequests == [u \in RECIPE_URLS |-> "fetching"]

\* faulty variant: the record put at the place of its URL in RECIPE_URLS
PushInUrlOrder(rs, u) ==
    LET before == SelectSeq(rs, LAMBDA r : r.id < u)
        after == SelectSeq(rs, LAMBDA r : r.id > u)
    IN before \o <<Obj(u)>> \o after

\* recipes.push(json)
Push(rs, u) == Append(rs, Obj(u))

\* faulty variant: a failed request is issued again
RetryAfterFailure == "fetching"

\* .catch(err): a failed source is left as it is
AfterFailure == "failed"

\* faulty variant: resolved on the first record
AllFinishedFirst(n) == n >= 1

\* faulty variant: the comparison off by one
AllFinishedEarly(n) == n >= NumUrls - 1

\* finished >= RECIPE_URLS.length
AllFinished(n) == n >= NumUrls

\* resolve(v): settles a pending promise, and only a pending one
Resolve(p, v) == IF p.state = "pending" THEN Fulfilled(v) ELSE p

\* faulty variant: a settled outcome replaced by a later error
RejectOverwrite(p, e) == Rejected(e)

\* reject(e): settles a pending promise, and only a pending one
Reject(p, e) == IF p.state = "pending" THEN Rejected(e) ELSE p

\* faulty variant: the write left out
SaveNothing(old, rs) == old

\* faulty variant: an entry already present is kept
SaveIfAbsent(old, rs) ==
    IF old.present THEN old ELSE Str(JSONstringify(Arr(rs)))

\* localStorage.setItem('recipes', JSON.stringify(recipes))
SaveRecipesToStorage(old, rs) == Str(JSONstringify(Arr(rs)))

\* let err = e => { console.error(e); reject(e); }
err(t, e) ==
    /\ firstError' = [firstError EXCEPT
                        ![t] = IF @ = Undefined THEN e ELSE @]
    /\ promise' = [promise EXCEPT ![t] = Reject(@, e)]

(***************************************************************************)
(* addRecipesToDocument                                                    *)
(***************************************************************************)

RECURSIVE ForEachPrepend(_, _, _)

\* faulty variant: each card put in front of the children
ForEachPrepend(children, items, i) ==
    IF i > Len(items) THEN children
    ELSE ForEachPrepend(<<RecipeCard(items[i])>> \o children, items, i + 1)

RECURSIVE ForEachAppend(_, _, _)

\* recipes.forEach: one card per recipe, appended to <main>
ForEachAppend(children, items, i) ==
    IF i > Len(items) THEN children
    ELSE ForEachAppend(Append(children, RecipeCard(items[i])), items, i + 1)

\* faulty variant: the test for nothing left out
AddRecipesNoGuard(children, rs) ==
    IF rs.type # "array" THEN [threw |-> TRUE, children |-> children]
    ELSE [threw |-> FALSE, children |-> ForEachAppend(children, rs.items, 1)]

\* the children of <main> after the call, or the TypeError of a value
\* that has no forEach
AddRecipesToDocument(children, rs) ==
    IF ~Truthy(rs) THEN [threw |-> FALSE, children |-> children]
    ELSE IF rs.type # "array" THEN [threw |-> TRUE, children |-> children]
    ELSE [threw |-> FALSE, children |-> ForEachAppend(children, rs.items, 1)]

(***************************************************************************)
(* init                                                                    *)
(***************************************************************************)

\* faulty variant: no try/catch around the await
AfterAwaitNoCatch(p) ==
    [threw |-> p.state = "rejected",
     recipes |-> IF p.state = "fulfilled" THEN p.value ELSE Undefined]

\* try { recipes = await getRecipes(); } catch (err) { console.error(err); }
AfterAwait(p) ==
    [threw |-> FALSE,
     recipes |-> IF p.state = "fulfilled" THEN p.value ELSE Undefined]

\* faulty variant: the load started before the registrar
InitCallsLoadFirst == <<"getRecipes", "initializeServiceWorker">>

\* initializeServiceWorker(); ... await getRecipes();
InitCalls == <<"initializeServiceWorker", "getRecipes">>

\* the DOMContentLoaded handler up to its await: initializeServiceWorker(),
\* then the synchronous part of getRecipes()
DOMContentLoaded(t) ==
    /\ pc[t] = "idle"
    /\ pc' = [pc EXCEPT ![t] = "awaiting"]
    /\ listeners' = [listeners EXCEPT
                       ![t] = IF InstallsListener(swSupported) THEN @ + 1 ELSE @]
    /\ calls' = [calls EXCEPT ![t] = @ \o InitCalls]
    /\ cached' = [cached EXCEPT ![t] = storage]
    /\ reads' = [reads EXCEPT ![t] = @ + 1]
    /\ IF CacheHit(storage)
       THEN /\ promise' = [promise EXCEPT
                             ![t] = Fulfilled(FromCache(storage.str))]
            /\ UNCHANGED <<recipes, finished, src, requests>>
       ELSE /\ promise' = [promise EXCEPT ![t] = Pending]
            /\ recipes' = [recipes EXCEPT ![t] = <<>>]
            /\ finished' = [finished EXCEPT ![t] = 0]
            /\ src' = [src EXCEPT ![t] = IssuedRequests]
            /\ requests' = [requests EXCEPT ![t] = @ + NumUrls]
    /\ UNCHANGED <<storage, lastWriter, swSupported, writes, firstError,
                   initRecipes, main, loadFired, registrations, prev>>

\* fetch(url) resolves: body.json() is called
FetchOk(t, u) ==
    /\ src[t][u] = "fetching"
    /\ src' = [src EXCEPT ![t][u] = "parsing"]
    /\ UNCHANGED <<storage, lastWriter, swSupported, pc, cached, promise,
                   recipes, finished, requests, writes, firstError,
                   initRecipes, main, listeners, loadFired, registrations,
                   prev>>
    /\ UNCHANGED <<reads, calls>>

\* fetch(url) rejects: the outer .catch(err)
FetchFail(t, u) ==
    /\ src[t][u] = "fetching"
    /\ src' = [src EXCEPT ![t][u] = AfterFailure]
    /\ err(t, Err(u, "fetch"))
    /\ UNCHANGED <<storage, lastWriter, swSupported, pc, cached, recipes,
                   finished, requests, writes, initRecipes, main, listeners,
                   loadFired, registrations, prev>>
    /\ UNCHANGED <<reads, calls>>

\* body.json() resolves: push, count, and on the last one save and resolve
JsonOk(t, u) ==
    /\ src[t][u] = "parsing"
    /\ src' = [src EXCEPT ![t][u] = "done"]
    /\ recipes' = [recipes EXCEPT ![t] = Push(@, u)]
    /\ finished' = [finished EXCEPT ![t] = @ + 1]
    /\ IF AllFinished(finished'[t])
       THEN /\ storage' = SaveRecipesToStorage(storage, recipes'[t])
            /\ lastWriter' = t
            /\ writes' = [writes EXCEPT ![t] = @ + 1]
            /\ promise' = [promise EXCEPT ![t] = Resolve(@, Arr(recipes'[t]))]
       ELSE UNCHANGED <<storage, lastWriter, writes, promise>>
    /\ UNCHANGED <<swSupported, pc, cached, requests, firstError, initRecipes,
                   main, listeners, loadFired, registrations, prev>>
    /\ UNCHANGED <<reads, calls>>

\* body.json() rejects: the inner .catch(err)
JsonFail(t, u) ==
    /\ src[t][u] = "parsing"
    /\ src' = [src EXCEPT ![t][u] = AfterFailure]
    /\ err(t, Err(u, "json"))
    /\ UNCHANGED <<storage, lastWriter, swSupported, pc, cached, recipes,
                   finished, requests, writes, initRecipes, main, listeners,
                   loadFired, registrations, prev>>
    /\ UNCHANGED <<reads, calls>>

\* init() resumes once the promise has settled: the catch, then the render
InitResume(t) ==
    /\ pc[t] = "awaiting"
    /\ promise[t].state # "pending"
    /\ LET a == AfterAwait(promise[t])
           r == AddRecipesToDocument(main[t], a.recipes)
       IN IF a.threw
          THEN /\ pc' = [pc EXCEPT ![t] = "crashed"]
               /\ UNCHANGED <<initRecipes, main, calls>>
          ELSE /\ initRecipes' = [initRecipes EXCEPT ![t] = a.recipes]
               /\ calls' = [calls EXCEPT ![t] = Append(@, "addRecipesToDocument")]
               /\ main' = [main EXCEPT ![t] = r.children]
               /\ pc' = [pc EXCEPT ![t] = IF r.threw THEN "crashed" ELSE "done"]
    /\ UNCHANGED <<storage, lastWriter, swSupported, cached, promise, recipes,
                   finished, src, requests, writes, firstError, listeners,
                   loadFired, registrations, prev, reads>>

\* the window's load event: every installed listener runs
LoadEvent(t) ==
    /\ pc[t] # "idle"
    /\ loadFired[t] < MaxLoadEvents
    /\ loadFired' = [loadFired EXCEPT ![t] = @ + 1]
    /\ registrations' = [registrations EXCEPT
                           ![t] = @ + RegistersOnLoad(listeners[t])]
    /\ UNCHANGED <<storage, lastWriter, swSupported, pc, cached, promise,
                   recipes, finished, src, requests, writes, firstError,
                   initRecipes, main, listeners, prev>>
    /\ UNCHANGED <<reads, calls>>

\* the page is opened again: a fresh document and script, the same storage
Reload(t) ==
    /\ pc[t] \in {"done", "crashed"}
    /\ prev' = [prev EXCEPT
                  ![t] = IF promise[t].state = "fulfilled" /\ ~CacheHit(cached[t])
                         THEN [kind |-> "fresh", value |-> promise[t].value]
                         ELSE IF promise[t].state = "fulfilled"
                         THEN [kind |-> "hit", value |-> promise[t].value]
                         ELSE NoPrev]
    /\ pc' = [pc EXCEPT ![t] = "idle"]
    /\ cached' = [cached EXCEPT ![t] = Absent]
    /\ promise' = [promise EXCEPT ![t] = Pending]
    /\ recipes' = [recipes EXCEPT ![t] = <<>>]
    /\ finished' = [finished EXCEPT ![t] = 0]
    /\ src' = [src EXCEPT ![t] = [u \in RECIPE_URLS |-> "idle"]]
    /\ requests' = [requests EXCEPT ![t] = 0]
    /\ writes' = [writes EXCEPT ![t] = 0]
    /\ firstError' = [firstError EXCEPT ![t] = Undefined]
    /\ initRecipes' = [initRecipes EXCEPT ![t] = Undefined]
    /\ main' = [main EXCEPT ![t] = InitialMain]
    /\ listeners' = [listeners EXCEPT ![t] = 0]
    /\ loadFired' = [loadFired EXCEPT ![t] = 0]
    /\ registrations' = [registrations EXCEPT ![t] = 0]
    /\ reads' = [reads EXCEPT ![t] = 0]
    /\ calls' = [calls EXCEPT ![t] = <<>>]
    /\ UNCHANGED <<storage, lastWriter, swSupported>>

(***************************************************************************)
(* One page, opened again and again                                        *)
(***************************************************************************)

Next ==
    \/ DOMContentLoaded("A")
    \/ \E u \in RECIPE_URLS : FetchOk("A", u)
    \/ \E u \in RECIPE_URLS : FetchFail("A", u)
    \/ \E u \in RECIPE_URLS : JsonOk("A", u)
    \/ \E u \in RECIPE_URLS : JsonFail("A", u)
    \/ InitResume("A")
    \/ LoadEvent("A")
    \/ Reload("A")

Spec == Init /\ [][Next]_vars

(***************************************************************************)
(* Two tabs racing on one storage that starts empty.  The steps of the two *)
(* tabs interleave freely; within a tab the network answers in a fixed     *)
(* order, tab A's in the order of RECIPE_URLS and tab B's in the reverse,  *)
(* so that the two tabs collect different arrays.  The tabs are followed   *)
(* up to the settling of their getRecipes() calls: the rest of init()      *)
(* touches neither the storage nor the calls.                              *)
(***************************************************************************)

Position(t, u) == IF t = "A" THEN u ELSE NumUrls + 1 - u

\* every source the network answers before u has been answered in full
InTurn(t, u) ==
    \A v \in RECIPE_URLS :
        Position(t, v) < Position(t, u) => src[t][v] \in {"done", "failed"}

InitTabs ==
    /\ storage = Absent
    /\ lastWriter = ""
    /\ swSupported \in BOOLEAN
    /\ PageInit

NextTabs ==
    \E t \in Tabs :
        \/ DOMContentLoaded(t)
        \/ \E u \in RECIPE_URLS : InTurn(t, u) /\ FetchOk(t, u)
        \/ \E u \in RECIPE_URLS : InTurn(t, u) /\ FetchFail(t, u)
        \/ \E u \in RECIPE_URLS : InTurn(t, u) /\ JsonOk(t, u)
        \/ \E u \in RECIPE_URLS : InTurn(t, u) /\ JsonFail(t, u)

SpecTabs == InitTabs /\ [][NextTabs]_vars

(***************************************************************************)
(* Properties                                                              *)
(***************************************************************************)

\* the records a serialized flat collection lists, read off by position
RecipesIn(s) == [i \in 1..((Len(s) - 1) \div 2) |-> ObjOfTok(s[2 * i])]

\* s is the serialized form of a collection of recipe records
IsSerializedCollection(s) ==
    /\ Len(s) >= 2
    /\ \A i \in 1..((Len(s) - 1) \div 2) : IsObjTok(s[2 * i]) /\ s[2 * i] # "{}"
    /\ s = JSONstringify(Arr(RecipesIn(s)))

\* items holds the record of each source exactly once
HoldsEachOnce(items) ==
    /\ Len(items) = NumUrls
    /\ \A u \in RECIPE_URLS :
          Cardinality({i \in 1..Len(items) : items[i] = Obj(u)}) = 1

\* the storage holds the serialized form of a complete collection
StorageComplete ==
    /\ storage.present
    /\ LET r == JSONparse(storage.str) IN
          r.ok /\ r.val.type = "array" /\ HoldsEachOnce(r.val.items)

\* the strings of InitialStrings that are not JSON, the empty one apart
CorruptStrings ==
    { <<"[">>, <<"x">>, <<"[", "{1}", ",", "]">>, <<"[", "{1}", "{2}", "]">>,
      <<"]", "[">> }

\* the cards of a collection, in its order
CardsOf(items) == [i \in 1..Len(items) |-> RecipeCard(items[i])]

Failed(t) == {u \in RECIPE_URLS : src[t][u] = "failed"}

Done(t) == {u \in RECIPE_URLS : src[t][u] = "done"}

\* C1: a cache hit. Whenever the storage held the serialized form of a
\* collection C (the empty one included) when getRecipes() started, the call
\* returns exactly C, records and order, and no request is issued.
Thm_C1 ==
    (pc["A"] # "idle" /\ cached["A"].present
        /\ IsSerializedCollection(cached["A"].str))
    => /\ promise["A"] = Fulfilled(Arr(RecipesIn(cached["A"].str)))
       /\ requests["A"] = 0
       /\ \A u \in RECIPE_URLS : src["A"][u] = "idle"

Wit_C1 ==
    /\ pc["A"] = "done"
    /\ cached["A"] = Str(<<"[", "{2}", ",", "{1}", ",", "{3}", "]">>)
    /\ promise["A"] = Fulfilled(Arr(<<Obj(2), Obj(1), Obj(3)>>))
    /\ requests["A"] = 0

\* C2: a cache miss fills the cache. When the entry was absent at the start
\* and all six sources were parsed, the call has resolved and the storage
\* holds, serialized, the returned collection, which has each of the six
\* records exactly once; and the getRecipes() call of the next page load
\* returns that same collection, in the same order, without any request.
Thm_C2 ==
    /\ (pc["A"] # "idle" /\ ~cached["A"].present /\ Done("A") = RECIPE_URLS)
       => /\ promise["A"].state = "fulfilled"
          /\ StorageComplete
          /\ JSONparse(storage.str).val = promise["A"].value
    /\ (pc["A"] # "idle" /\ prev["A"].kind = "fresh")
       => /\ promise["A"] = Fulfilled(prev["A"].value)
          /\ requests["A"] = 0

Wit_C2 ==
    /\ pc["A"] = "done"
    /\ prev["A"].kind = "fresh"
    /\ promise["A"] = Fulfilled(Arr(<<Obj(3), Obj(6), Obj(1), Obj(5), Obj(2), Obj(4)>>))
    /\ requests["A"] = 0

\* C3: all or nothing. From an absent entry, as soon as one source has
\* failed (request or parse) the call is rejected, it is never resolved
\* unless all six were parsed, and in every later state of the load the
\* entry is still absent and saveRecipesToStorage has not been called.
Thm_C3 ==
    /\ (pc["A"] # "idle" /\ ~cached["A"].present /\ Failed("A") # {})
       => /\ promise["A"].state = "rejected"
          /\ storage = Absent
          /\ writes["A"] = 0
    /\ (pc["A"] # "idle" /\ ~cached["A"].present
           /\ promise["A"].state = "fulfilled")
       => Done("A") = RECIPE_URLS

Wit_C3 ==
    /\ pc["A"] = "done"
    /\ ~cached["A"].present
    /\ src["A"][4] = "failed"
    /\ finished["A"] = NumUrls - 1
    /\ firstError["A"] = Err(4, "json")
    /\ promise["A"].state = "rejected"
    /\ storage = Absent

\* C4 as stated: for every non-JSON string in the entry, the empty string
\* included, getRecipes() returns the empty collection and issues no request.
Orig_C4 ==
    (pc["A"] # "idle" /\ cached["A"].present
        /\ cached["A"].str \in CorruptStrings \cup {<<>>})
    => /\ promise["A"] = Fulfilled(Arr(<<>>))
       /\ requests["A"] = 0

\* C4, amended: for every non-empty non-JSON string in the entry,
\* getRecipes() returns the empty collection and issues no request.
Thm_C4 ==
    (pc["A"] # "idle" /\ cached["A"].present
        /\ cached["A"].str \in CorruptStrings)
    => /\ promise["A"] = Fulfilled(Arr(<<>>))
       /\ requests["A"] = 0
       /\ \A u \in RECIPE_URLS : src["A"][u] = "idle"

Wit_C4 ==
    /\ pc["A"] = "done"
    /\ cached["A"] = Str(<<"[", "{1}", ",", "]">>)
    /\ promise["A"] = Fulfilled(Arr(<<>>))
    /\ requests["A"] = 0

\* C5: render order. Once init() has rendered a collection [r1..rn], the
\* children of <main> are its previous children followed by n cards, the
\* i-th carrying ri: nothing is dropped, merged or reordered.
Thm_C5 ==
    (pc["A"] \in {"done", "crashed"} /\ promise["A"].state = "fulfilled"
        /\ promise["A"].value.type = "array")
    => /\ pc["A"] = "done"
       /\ main["A"] = InitialMain \o CardsOf(promise["A"].value.items)

Wit_C5 ==
    /\ pc["A"] = "done"
    /\ initRecipes["A"] = Arr(<<Obj(1), Obj(1)>>)
    /\ main["A"] = <<Heading, RecipeCard(Obj(1)), RecipeCard(Obj(1))>>

\* C6: render nothing. The step in which init() calls the renderer with
\* undefined or null completes, and changes neither the children of <main>
\* nor anything else but init()'s own position.
Thm_C6 ==
    [][ (/\ pc["A"] = "awaiting"
         /\ pc'["A"] # "awaiting"
         /\ \/ promise["A"].state = "rejected"
            \/ promise["A"].value \in {Undefined, Null})
        => /\ pc'["A"] = "done"
           /\ initRecipes'["A"] \in {Undefined, Null}
           /\ main' = main
           /\ UNCHANGED <<storage, lastWriter, promise, recipes, finished, src,
                          requests, writes, listeners, registrations>> ]_vars

Wit_C6 ==
    /\ pc["A"] = "done"
    /\ cached["A"] = Str(<<"null">>)
    /\ initRecipes["A"] = Null
    /\ main["A"] = InitialMain

\* C7: failure at the top level. Whenever getRecipes() has rejected and
\* init() has gone on, init() has completed without failing, it called the
\* renderer with undefined, and <main> has the children it had before.
Thm_C7 ==
    (promise["A"].state = "rejected" /\ pc["A"] # "awaiting")
    => /\ pc["A"] = "done"
       /\ initRecipes["A"] = Undefined
       /\ main["A"] = InitialMain

Wit_C7 ==
    /\ promise["A"] = Rejected(Err(2, "fetch"))
    /\ pc["A"] = "done"
    /\ initRecipes["A"] = Undefined
    /\ main["A"] = InitialMain

\* C8: the first error wins. A rejected call carries the error delivered
\* first; once the call has settled, no later failure or success of the same
\* load changes its outcome, and after a rejection none changes the storage.
Thm_C8 ==
    [][ /\ promise'["A"].state = "rejected"
           => promise'["A"].value = firstError'["A"]
        /\ (promise["A"].state # "pending" /\ pc'["A"] # "idle")
           => promise'["A"] = promise["A"]
        /\ (promise["A"].state = "rejected" /\ pc'["A"] # "idle")
           => storage' = storage ]_vars

Wit_C8 ==
    /\ promise["A"] = Rejected(Err(5, "fetch"))
    /\ src["A"][5] = "failed"
    /\ src["A"][2] = "failed"
    /\ src["A"][1] = "failed"
    /\ Cardinality(Done("A")) = 3
    /\ storage = Absent

\* C9: racing tabs. With two tabs on one storage that starts absent, the
\* entry is in every state absent or a complete collection with all six
\* records exactly once, and it is the collection of the tab that wrote
\* last.
Thm_C9 ==
    /\ storage = Absent \/ StorageComplete
    /\ storage.present
       => /\ lastWriter \in Tabs
          /\ JSONparse(storage.str).val = Arr(recipes[lastWriter])
          /\ promise[lastWriter] = Fulfilled(Arr(recipes[lastWriter]))

Wit_C9 ==
    /\ writes["A"] = 1
    /\ writes["B"] = 1
    /\ lastWriter = "A"
    /\ recipes["A"] # recipes["B"]
    /\ JSONparse(storage.str).val = Arr(recipes["A"])

\* C10: worker registration. Without worker support no listener is installed
\* and nothing is registered; with it, nothing is registered before a load
\* event has fired, and there is one registration for each load event fired
\* after init().
Thm_C10 ==
    /\ ~swSupported => listeners["A"] = 0 /\ registrations["A"] = 0
    /\ registrations["A"] > 0 => loadFired["A"] > 0
    /\ (swSupported /\ pc["A"] # "idle")
       => listeners["A"] = 1 /\ registrations["A"] = loadFired["A"]

Wit_C10 ==
    /\ swSupported
    /\ loadFired["A"] = 2
    /\ registrations["A"] = 2

(***************************************************************************)
(* One page load with the scheduling the platform guarantees: every        *)
(* request issued is answered, every body parse ends, and a continuation   *)
(* whose promise has settled is run.                                       *)
(***************************************************************************)

NextLive ==
    \/ DOMContentLoaded("A")
    \/ \E u \in RECIPE_URLS : FetchOk("A", u)
    \/ \E u \in RECIPE_URLS : FetchFail("A", u)
    \/ \E u \in RECIPE_URLS : JsonOk("A", u)
    \/ \E u \in RECIPE_URLS : JsonFail("A", u)
    \/ InitResume("A")

Fairness ==
    /\ WF_vars(InitResume("A"))
    /\ \A u \in RECIPE_URLS :
          /\ WF_vars(FetchOk("A", u) \/ FetchFail("A", u))
          /\ WF_vars(JsonOk("A", u) \/ JsonFail("A", u))

SpecLive == Init /\ [][NextLive]_vars /\ Fairness

\* the entry was not used: the requests were issued
Miss(t) == pc[t] # "idle" /\ requests[t] > 0

Outstanding(t) == {u \in RECIPE_URLS : src[t][u] \in {"fetching", "parsing"}}

\* the calls of init(), in the order of its text
InitCallOrder == <<"initializeServiceWorker", "getRecipes", "addRecipesToDocument">>

\* C12: fire all, then await all. The requests are issued in one step, all
\* six together, and whenever a completion callback runs no request is
\* still to be issued.
Thm_C12 ==
    [][ /\ (\E u \in RECIPE_URLS :
               src["A"][u] = "idle" /\ src'["A"][u] # "idle")
           => \A v \in RECIPE_URLS :
                 src["A"][v] = "idle" /\ src'["A"][v] = "fetching"
        /\ (\E u \in RECIPE_URLS :
               src["A"][u] \in {"fetching", "parsing"}
               /\ src'["A"][u] # src["A"][u])
           => \A v \in RECIPE_URLS : src["A"][v] # "idle" ]_vars

Wit_C12 ==
    /\ src["A"][3] = "parsing"
    /\ \A v \in RECIPE_URLS \ {3} : src["A"][v] = "fetching"
    /\ requests["A"] = NumUrls

\* C13: completion order is collection order. Each source whose body parse
\* completes puts its record at the end of the array, wherever its URL
\* stands in RECIPE_URLS; the resolved value is that array and the cached
\* collection has the same order.
Thm_C13 ==
    [][ \A u \in RECIPE_URLS :
          (src["A"][u] = "parsing" /\ src'["A"][u] = "done")
          => /\ recipes'["A"] = Append(recipes["A"], Obj(u))
             /\ promise'["A"].state = "fulfilled"
                => /\ promise'["A"].value = Arr(recipes'["A"])
                   /\ JSONparse(storage'.str).val = Arr(recipes'["A"]) ]_vars

Wit_C13 ==
    /\ promise["A"] = Fulfilled(Arr(<<Obj(6), Obj(5), Obj(4), Obj(3), Obj(2), Obj(1)>>))
    /\ storage = Str(<<"[", "{6}", ",", "{5}", ",", "{4}", ",", "{3}", ",",
                       "{2}", ",", "{1}", "]">>)
    /\ prev["A"].kind = "none"

\* C14: one read, at most one write. A call reads the entry once, when it
\* starts, and writes it at most once, in the step in which the count of
\* parsed sources goes from five to six; nothing else changes the entry.
Thm_C14 ==
    [][ /\ pc'["A"] # "idle" => reads'["A"] = 1
        /\ reads'["A"] > reads["A"] => pc["A"] = "idle"
        /\ writes'["A"] <= 1
        /\ writes'["A"] > writes["A"]
           => finished["A"] = NumUrls - 1 /\ finished'["A"] = NumUrls
        /\ storage' # storage => writes'["A"] = writes["A"] + 1 ]_vars

Wit_C14 ==
    /\ reads["A"] = 1
    /\ writes["A"] = 1
    /\ finished["A"] = NumUrls
    /\ pc["A"] = "awaiting"

\* C15: one request per source, no retries. A load issues no request or
\* six, one for each URL when it found no entry; a source is never put
\* back in flight, and a failed source stays failed.
Thm_C15 ==
    [][ /\ requests'["A"] \in {0, NumUrls}
        /\ (pc'["A"] # "idle" /\ ~cached'["A"].present)
           => /\ requests'["A"] = NumUrls
              /\ \A u \in RECIPE_URLS : src'["A"][u] # "idle"
        /\ \A u \in RECIPE_URLS :
              /\ src'["A"][u] = "fetching" => src["A"][u] \in {"idle", "fetching"}
              /\ (src["A"][u] = "failed" /\ pc'["A"] # "idle")
                 => src'["A"][u] = "failed"
        /\ firstError'["A"] # Undefined
           => src'["A"][firstError'["A"].src] = "failed" ]_vars

Wit_C15 ==
    /\ requests["A"] = NumUrls
    /\ src["A"][1] = "failed"
    /\ firstError["A"] = Err(1, "fetch")
    /\ \A u \in RECIPE_URLS \ {1} : src["A"][u] = "done"
    /\ pc["A"] = "done"

\* C16 as stated: on a cache miss the call does not settle, by resolving or
\* by rejecting, before all six requests have completed.
Orig_C16 ==
    (Miss("A") /\ promise["A"].state # "pending") => Outstanding("A") = {}

\* C16, amended: on a cache miss the call does not resolve before all six
\* sources have been parsed, and it does not settle while no source has
\* failed and one is outstanding; it rejects only once a source has failed.
Thm_C16 ==
    Miss("A")
    => /\ promise["A"].state = "fulfilled" => Outstanding("A") = {}
       /\ promise["A"].state = "rejected" => Failed("A") # {}
       /\ (Failed("A") = {} /\ Outstanding("A") # {})
          => promise["A"].state = "pending"

Wit_C16 ==
    /\ Miss("A")
    /\ promise["A"] = Rejected(Err(3, "fetch"))
    /\ Cardinality(Outstanding("A")) = NumUrls - 1

\* C17 as stated: while one of the six requests has not completed, the call
\* has not settled and init() has not reached the renderer, whatever the
\* outcomes of the other five.
Orig_C17 ==
    (Miss("A") /\ Outstanding("A") # {})
    => /\ promise["A"].state = "pending"
       /\ pc["A"] = "awaiting"

\* C17, amended: while one of the six requests has not completed and none
\* of the others has failed, the call has not settled and init() has not
\* reached the renderer.
Thm_C17 ==
    (Miss("A") /\ Outstanding("A") # {} /\ Failed("A") = {})
    => /\ promise["A"].state = "pending"
       /\ pc["A"] = "awaiting"
       /\ calls["A"] = SubSeq(InitCallOrder, 1, 2)
       /\ main["A"] = InitialMain

Wit_C17 ==
    /\ Miss("A")
    /\ src["A"][2] = "fetching"
    /\ Done("A") = RECIPE_URLS \ {2}
    /\ promise["A"].state = "pending"
    /\ pc["A"] = "awaiting"

\* C18: order and progress of init(). The registrar is called before the
\* load, the renderer at most once and only after the call has settled;
\* and when every request and body parse ends, a started init() comes to
\* call the renderer.
Thm_C18 ==
    /\ [](/\ calls["A"] = SubSeq(InitCallOrder, 1, Len(calls["A"]))
          /\ pc["A"] # "idle" => Len(calls["A"]) >= 2
          /\ Len(calls["A"]) = 3 => promise["A"].state # "pending")
    /\ (pc["A"] = "awaiting")
       ~> (promise["A"].state # "pending" /\ Len(calls["A"]) = 3)

Wit_C18 ==
    /\ calls["A"] = InitCallOrder
    /\ Miss("A")
    /\ promise["A"].state = "rejected"
    /\ Outstanding("A") = {}

\* C19: no write on a present entry. A non-empty entry, valid or corrupt,
\* is never changed by a load: the call that found it issues no request and
\* writes nothing, the next load returns what this one returned, and while
\* the entry is corrupt every load returns the empty collection.
Thm_C19 ==
    [][ /\ (storage.present /\ storage.str # <<>>) => storage' = storage
        /\ (pc'["A"] # "idle" /\ cached'["A"].present
               /\ cached'["A"].str # <<>>)
           => /\ storage' = cached'["A"]
              /\ writes'["A"] = 0
              /\ requests'["A"] = 0
        /\ (pc'["A"] # "idle" /\ prev'["A"].kind = "hit")
           => promise'["A"] = Fulfilled(prev'["A"].value)
        /\ (pc'["A"] # "idle" /\ storage'.present
               /\ storage'.str \in CorruptStrings)
           => promise'["A"] = Fulfilled(Arr(<<>>)) ]_vars

Wit_C19 ==
    /\ prev["A"] = [kind |-> "hit", value |-> Arr(<<>>)]
    /\ storage = Str(<<"x">>)
    /\ pc["A"] = "done"
    /\ promise["A"] = Fulfilled(Arr(<<>>))

\* C20 as stated: whatever the entry holds when the page loads, the call
\* returns a collection or nothing (a value the renderer takes for nothing)
\* and init() completes without an uncaught error.
Claim_C20 ==
    pc["A"] \notin {"idle", "awaiting"}
    => /\ pc["A"] = "done"
       /\ promise["A"].state = "fulfilled"
          => \/ promise["A"].value.type = "array"
             \/ ~Truthy(promise["A"].value)

====
